---- MODULE Spec2Model ----
(***************************************************************************)
(* actix-flash: flash messages carried by one cookie.                      *)
(*                                                                         *)
(* The model follows src/src/lib.rs:                                       *)
(*   - the codec (serde_json over the envelope ValuedMessage /             *)
(*     ValuedMessageRef, key "_"),                                         *)
(*   - the extractor Message::from_request,                                *)
(*   - the carrier Response::respond_to,                                   *)
(*   - the middleware FlashMiddleware::call (entry part and the            *)
(*     and_then continuation),                                             *)
(* and, as the environment, one client that keeps the flash cookie and     *)
(* applies the Set-Cookie headers of the responses it receives.            *)
(*                                                                         *)
(* Text (cookie values, JSON) is a sequence of one-character strings.      *)
(*                                                                         *)
(* Specifications:                                                         *)
(*   Spec         the client's cycles, up to two of them in flight;        *)
(*   SpecCodec    one cycle over all cookie texts and messages;            *)
(*   SpecReads    one cycle with several extractions, which are recorded;  *)
(*   SpecCarrier  one cycle with nested carriers, the responder recorded.  *)
(***************************************************************************)
EXTENDS Integers, Sequences, FiniteSets, TLC

(***************************************************************************)
(* Bounds                                                                  *)
(***************************************************************************)
\* longest String message a handler stages
MaxMsgLen == 1
\* largest integer message a handler stages
MaxInt == 1
\* number of request/response cycles of the client
MaxCycles == 3
\* extractions a handler performs in one cycle
MaxExtract == 1
\* extractions the handler performs in the cycle whose extractions are recorded
MaxReads == 2
\* depth of carriers wrapping carriers (Response::new(_, Response::new(_, r)))
MaxNest == 2

None == "None"

(***************************************************************************)
(* Characters                                                              *)
(***************************************************************************)
QUOTE == "\""
BSLASH == "\\"
\* 0x7f: serde_json writes it unescaped, HeaderValue::from_str rejects it
DEL == "DEL"
\* characters of String messages
MsgChars == {"a", QUOTE, BSLASH, ";", DEL}
Digits == <<"0", "1", "2", "3", "4", "5", "6", "7", "8", "9">>
DigitSet == {Digits[i] : i \in 1..10}

SeqsUpTo(S, n) == UNION {[1..k -> S] : k \in 0..n}

(***************************************************************************)
(* Message values of the two payload types T the model uses, String and an *)
(* unsigned integer, and one value serde_json cannot serialize (a map      *)
(* whose keys are not strings). A value is [t, s, n]: its type, its        *)
(* characters when a String, its number when an Int.                       *)
(***************************************************************************)
Types == {"String", "Int"}
StringMessages == {[t |-> "String", s |-> x, n |-> 0] : x \in SeqsUpTo(MsgChars, MaxMsgLen)}
IntMessages == {[t |-> "Int", s |-> <<>>, n |-> k] : k \in 0..MaxInt}
Unserializable == [t |-> "Map", s |-> <<>>, n |-> 0]
Messages == StringMessages \cup IntMessages \cup {Unserializable}
NoMessage == [t |-> "None", s |-> <<>>, n |-> 0]
\* the messages the handlers of the application under the middleware stage
HandlerMessages ==
    { [t |-> "String", s |-> <<"a">>, n |-> 0], [t |-> "String", s |-> <<";">>, n |-> 0],
      [t |-> "String", s |-> <<DEL>>, n |-> 0], [t |-> "Int", s |-> <<>>, n |-> 1],
      Unserializable }

(***************************************************************************)
(* Codec, encoding side: serde_json::to_string(&ValuedMessageRef{value}).  *)
(***************************************************************************)
RECURSIVE Decimal(_)
Decimal(n) == IF n < 10 THEN <<Digits[n + 1]>>
              ELSE Decimal(n \div 10) \o <<Digits[(n % 10) + 1]>>

\* a faulty variant: no escaping
EscapeChar_Raw(c) == <<c>>

\* serde_json's string escaping, on the characters of the model
EscapeChar(c) == IF c = QUOTE THEN <<BSLASH, QUOTE>>
                 ELSE IF c = BSLASH THEN <<BSLASH, BSLASH>>
                 ELSE <<c>>

RECURSIVE Escape(_)
Escape(s) == IF s = <<>> THEN <<>> ELSE EscapeChar(Head(s)) \o Escape(Tail(s))

JsonString(s) == <<QUOTE>> \o Escape(s) \o <<QUOTE>>

\* the JSON text of a payload of type T
ToJson(m) == IF m.t = "String" THEN JsonString(m.s) ELSE Decimal(m.n)

\* #[serde(rename="_")]
EnvelopeKey == <<"_">>

\* serde_json::to_string(&ValuedMessageRef { value: &msg.0 }): Ok(text) or Err
encode(m) ==
    IF m.t = "Map" THEN [ok |-> FALSE, json |-> <<>>]
    ELSE [ok |-> TRUE,
          json |-> <<"{">> \o JsonString(EnvelopeKey) \o <<":">> \o ToJson(m) \o <<"}">>]

(***************************************************************************)
(* Codec, decoding side: serde_json::from_str::<ValuedMessage<T>>.         *)
(* First the JSON grammar on the characters of the model (strings with the *)
(* escapes \" and \\, unsigned integers, arrays, objects, no white space), *)
(* then the derived Deserialize of the struct ValuedMessage.               *)
(* A JSON value is [k, s, n, items]; a parse result is [ok, val, pos],     *)
(* pos the index after the value.                                          *)
(***************************************************************************)
JStr(x) == [k |-> "str", s |-> x, n |-> 0, items |-> <<>>]
JNum(x) == [k |-> "num", s |-> <<>>, n |-> x, items |-> <<>>]
JArr(xs) == [k |-> "arr", s |-> <<>>, n |-> 0, items |-> xs]
JObj(ms) == [k |-> "obj", s |-> <<>>, n |-> 0, items |-> ms]
JNone == [k |-> "none", s |-> <<>>, n |-> 0, items |-> <<>>]

ParseFail == [ok |-> FALSE, val |-> JNone, pos |-> 0]
ParseOk(v, p) == [ok |-> TRUE, val |-> v, pos |-> p]

At(s, i) == IF i >= 1 /\ i <= Len(s) THEN s[i] ELSE "EOF"

DigitValue(c) == CHOOSE d \in 0..9 : Digits[d + 1] = c

\* the characters of a string after its opening quote
RECURSIVE ScanString(_, _, _)
ScanString(s, i, acc) ==
    LET c == At(s, i) IN
    IF c = "EOF" THEN ParseFail
    ELSE IF c = QUOTE THEN ParseOk(JStr(acc), i + 1)
    ELSE IF c = BSLASH
         THEN IF At(s, i + 1) \in {QUOTE, BSLASH}
              THEN ScanString(s, i + 2, Append(acc, At(s, i + 1)))
              ELSE ParseFail
    ELSE ScanString(s, i + 1, Append(acc, c))

\* the digits of a number after its first digit
RECURSIVE ScanDigits(_, _, _)
ScanDigits(s, i, acc) ==
    IF At(s, i) \in DigitSet
    THEN ScanDigits(s, i + 1, 10 * acc + DigitValue(At(s, i)))
    ELSE ParseOk(JNum(acc), i)

\* a JSON number: 0, or a non-zero digit followed by digits
ScanNumber(s, i) ==
    IF At(s, i) = "0"
    THEN IF At(s, i + 1) \in DigitSet THEN ParseFail ELSE ParseOk(JNum(0), i + 1)
    ELSE ScanDigits(s, i + 1, DigitValue(At(s, i)))

RECURSIVE ParseValue(_, _), ParseElems(_, _, _), ParseMembers(_, _, _)
ParseValue(s, i) ==
    LET c == At(s, i) IN
    IF c = QUOTE THEN ScanString(s, i + 1, <<>>)
    ELSE IF c \in DigitSet THEN ScanNumber(s, i)
    ELSE IF c = "[" THEN IF At(s, i + 1) = "]" THEN ParseOk(JArr(<<>>), i + 2)
                         ELSE ParseElems(s, i + 1, <<>>)
    ELSE IF c = "{" THEN IF At(s, i + 1) = "}" THEN ParseOk(JObj(<<>>), i + 2)
                         ELSE ParseMembers(s, i + 1, <<>>)
    ELSE ParseFail

\* the elements of an array, from an element on
ParseElems(s, i, acc) ==
    LET e == ParseValue(s, i) IN
    IF ~e.ok THEN ParseFail
    ELSE IF At(s, e.pos) = "," THEN ParseElems(s, e.pos + 1, Append(acc, e.val))
    ELSE IF At(s, e.pos) = "]" THEN ParseOk(JArr(Append(acc, e.val)), e.pos + 1)
    ELSE ParseFail

\* the members of an object, from a key on
ParseMembers(s, i, acc) ==
    IF At(s, i) # QUOTE THEN ParseFail
    ELSE LET key == ScanString(s, i + 1, <<>>) IN
         IF ~key.ok \/ At(s, key.pos) # ":" THEN ParseFail
         ELSE LET e == ParseValue(s, key.pos + 1)
                  m == [key |-> key.val.s, val |-> e.val]
              IN IF ~e.ok THEN ParseFail
                 ELSE IF At(s, e.pos) = "," THEN ParseMembers(s, e.pos + 1, Append(acc, m))
                 ELSE IF At(s, e.pos) = "}" THEN ParseOk(JObj(Append(acc, m)), e.pos + 1)
                 ELSE ParseFail

\* the whole text is one JSON value
ParseJson(s) ==
    LET r == ParseValue(s, 1) IN
    IF r.ok /\ r.pos = Len(s) + 1 THEN r ELSE ParseFail

DecodeErr == [ok |-> FALSE, msg |-> NoMessage]
DecodeOk(m) == [ok |-> TRUE, msg |-> m]

\* Deserialize of the payload type T from one JSON value
FromValue(T, v) ==
    IF T = "String" /\ v.k = "str" THEN DecodeOk([t |-> "String", s |-> v.s, n |-> 0])
    ELSE IF T = "Int" /\ v.k = "num" THEN DecodeOk([t |-> "Int", s |-> <<>>, n |-> v.n])
    ELSE DecodeErr

\* #[derive(Deserialize)] struct ValuedMessage<T> { #[serde(rename="_")] value: T }
\* as serde_json deserializes a struct: from a map (the field "_" exactly once,
\* other keys ignored) or from a sequence (of exactly the one field).
ValuedMessage(T, j) ==
    IF j.k = "obj"
    THEN LET at == {i \in 1..Len(j.items) : j.items[i].key = EnvelopeKey} IN
         IF Cardinality(at) # 1 THEN DecodeErr
         ELSE FromValue(T, j.items[CHOOSE i \in at : TRUE].val)
    ELSE IF j.k = "arr"
    THEN IF Len(j.items) # 1 THEN DecodeErr ELSE FromValue(T, j.items[1])
    ELSE DecodeErr

\* serde_json::from_str::<ValuedMessage<T>>(text)
decode(T, text) ==
    LET r == ParseJson(text) IN
    IF r.ok THEN ValuedMessage(T, r.val) ELSE DecodeErr

(***************************************************************************)
(* Cookies and headers (actix_web::cookie::Cookie, CookieJar,              *)
(* HttpResponse::add_cookie) as lib.rs uses them.                          *)
(***************************************************************************)
\* Flash::default() and another name given to Flash::new
DefaultName == "_flash"
CookieNames == <<DefaultName, "notice">>
NameSet == {CookieNames[i] : i \in 1..Len(CookieNames)}

\* a cookie: name, value, path (None when unset), removal (Max-Age=0, Expires in the past)
MkCookie(name, value) == [name |-> name, value |-> value, path |-> None, removal |-> FALSE]
SetPath(c, p) == [c EXCEPT !.path = p]
NoCookie == [found |-> FALSE, cookie |-> MkCookie("", <<>>)]

\* a faulty variant: the first cookie of the request, whatever its name
FindCookie_First(cookies, name) ==
    IF cookies = <<>> THEN NoCookie ELSE [found |-> TRUE, cookie |-> Head(cookies)]

\* HttpMessage::cookie(name): the first cookie of the request with that name
RECURSIVE FindCookie(_, _)
FindCookie(cookies, name) ==
    IF cookies = <<>> THEN NoCookie
    ELSE IF Head(cookies).name = name THEN [found |-> TRUE, cookie |-> Head(cookies)]
    ELSE FindCookie(Tail(cookies), name)

RECURSIVE WithoutName(_, _)
WithoutName(cookies, name) ==
    IF cookies = <<>> THEN <<>>
    ELSE IF Head(cookies).name = name THEN WithoutName(Tail(cookies), name)
    ELSE <<Head(cookies)>> \o WithoutName(Tail(cookies), name)

\* CookieJar: the original cookies and the delta, both keyed by name
JarNew == [original |-> <<>>, delta |-> <<>>]
JarAddOriginal(jar, c) ==
    [jar EXCEPT !.original = Append(WithoutName(jar.original, c.name), c)]
\* a faulty variant: the removal never enters the delta
JarRemove_Silent(jar, c) == [jar EXCEPT !.delta = WithoutName(jar.delta, c.name)]

\* CookieJar::remove: a removal cookie enters the delta when the name is an
\* original cookie, otherwise the name just leaves the delta
JarRemove(jar, c) ==
    IF FindCookie(jar.original, c.name).found
    THEN [jar EXCEPT !.delta = Append(WithoutName(jar.delta, c.name),
                                      [c EXCEPT !.value = <<>>, !.removal = TRUE])]
    ELSE [jar EXCEPT !.delta = WithoutName(jar.delta, c.name)]
JarDelta(jar) == jar.delta

Range(s) == {s[i] : i \in 1..Len(s)}

\* HeaderValue::from_str(&cookie.to_string()) accepts the header text
HeaderValid(c) == DEL \notin Range(c.value)

\* a faulty variant: the header replaces the Set-Cookie headers already there
add_cookie_Insert(res, c) ==
    IF HeaderValid(c)
    THEN [ok |-> TRUE, res |-> [res EXCEPT !.headers = <<c>>], err |-> ""]
    ELSE [ok |-> FALSE, res |-> res, err |-> "HeaderError"]

\* HttpResponse::add_cookie: appends one Set-Cookie header, or fails
add_cookie(res, c) ==
    IF HeaderValid(c)
    THEN [ok |-> TRUE, res |-> [res EXCEPT !.headers = Append(@, c)], err |-> ""]
    ELSE [ok |-> FALSE, res |-> res, err |-> "HeaderError"]

(***************************************************************************)
(* Message::from_request (lib.rs 89-97)                                   *)
(***************************************************************************)
NoFlashCookie == [present |-> FALSE, cookie |-> MkCookie("", <<>>)]
FlashCookie(c) == [present |-> TRUE, cookie |-> c]

BadRequest == "ErrorBadRequest(Invalid/missing flash cookie)"
ExtractErr(T) == [T |-> T, ok |-> FALSE, msg |-> NoMessage, err |-> BadRequest]
ExtractOk(T, m) == [T |-> T, ok |-> TRUE, msg |-> m, err |-> ""]

\* a faulty variant: a default value instead of the error
from_request_Default(ext, T) ==
    IF ext.present /\ decode(T, ext.cookie.value).ok
    THEN ExtractOk(T, decode(T, ext.cookie.value).msg)
    ELSE ExtractOk(T, [t |-> T, s |-> <<>>, n |-> 0])

from_request(ext, T) ==
    IF ext.present
    THEN LET d == decode(T, ext.cookie.value) IN
         IF d.ok THEN ExtractOk(T, d.msg) ELSE ExtractErr(T)
    ELSE ExtractErr(T)

(***************************************************************************)
(* Response::new, Response::with_redirect, Response::respond_to            *)
(* A responder is [msgs, base]: the messages of the carriers around the    *)
(* inner responder, outermost first (NoMessage for None), and the inner    *)
(* responder's production [ok, status, location].                          *)
(***************************************************************************)
NoStaged == [present |-> FALSE, json |-> <<>>]
Staged(json) == [present |-> TRUE, json |-> json]

\* an HttpResponse: status, Location, body, the response extensions'
\* FlashCookieValue, the Set-Cookie headers; msg is the message whose encoding
\* is staged
HttpResponse(status, location) ==
    [status |-> status, location |-> location, body |-> "", staged |-> NoStaged,
     msg |-> NoMessage, headers |-> <<>>]
NoResponse == HttpResponse(0, None)

\* the production of an inner responder: ok, and the response's status,
\* Location, body and own Set-Cookie headers
PlainBase == [ok |-> TRUE, status |-> 200, location |-> None, body |-> "", own |-> <<>>]
FailingBase == [ok |-> FALSE, status |-> 0, location |-> None, body |-> "", own |-> <<>>]
\* an inner responder whose response has a body and sets a cookie of its own
RichBase ==
    [ok |-> TRUE, status |-> 200, location |-> None, body |-> "page",
     own |-> <<MkCookie("session", <<"s">>)>>]
Locations == {"/show_flash"}
\* HttpResponse::SeeOther().header(LOCATION, location).finish()
SeeOther(location) ==
    [ok |-> TRUE, status |-> 303, location |-> location, body |-> "", own |-> <<>>]

\* the response an inner responder produces
BaseResponse(base) ==
    [HttpResponse(base.status, base.location) EXCEPT !.body = base.body, !.headers = base.own]

\* Response::new(message, responder) around a responder r
New(message, r) == [msgs |-> <<message>> \o r.msgs, base |-> r.base]
Inner(base) == [msgs |-> <<>>, base |-> base]
with_redirect(message, location) == [msgs |-> <<message>>, base |-> SeeOther(location)]

RespondErr(e) == [ok |-> FALSE, res |-> NoResponse, err |-> e]
RespondOk(res) == [ok |-> TRUE, res |-> res, err |-> ""]

\* a faulty variant: a payload already staged is kept
RECURSIVE respond_to_KeepFirst(_)
respond_to_KeepFirst(r) ==
    IF r.msgs = <<>>
    THEN IF r.base.ok THEN RespondOk(BaseResponse(r.base))
         ELSE RespondErr("InnerError")
    ELSE LET msg == Head(r.msgs)
             out == respond_to_KeepFirst([r EXCEPT !.msgs = Tail(r.msgs)])
         IN IF ~out.ok THEN out
            ELSE IF msg = NoMessage \/ out.res.staged.present THEN out
            ELSE LET json == encode(msg) IN
                 IF ~json.ok THEN RespondErr("EncodeError")
                 ELSE RespondOk([out.res EXCEPT !.staged = Staged(json.json), !.msg = msg])

\* a faulty variant: a failure of the encoding is swallowed
RECURSIVE respond_to_Swallow(_)
respond_to_Swallow(r) ==
    IF r.msgs = <<>>
    THEN IF r.base.ok THEN RespondOk(BaseResponse(r.base))
         ELSE RespondErr("InnerError")
    ELSE LET msg == Head(r.msgs)
             out == respond_to_Swallow([r EXCEPT !.msgs = Tail(r.msgs)])
         IN IF ~out.ok THEN out
            ELSE IF msg = NoMessage \/ ~encode(msg).ok THEN out
            ELSE RespondOk([out.res EXCEPT !.staged = Staged(encode(msg).json), !.msg = msg])

\* (lib.rs 128-140) the inner responder first, then encode and stage
RECURSIVE respond_to(_)
respond_to(r) ==
    IF r.msgs = <<>>
    THEN IF r.base.ok THEN RespondOk(BaseResponse(r.base))
         ELSE RespondErr("InnerError")
    ELSE LET msg == Head(r.msgs)
             out == respond_to([r EXCEPT !.msgs = Tail(r.msgs)])
         IN IF ~out.ok THEN out
            ELSE IF msg = NoMessage THEN out
            ELSE LET json == encode(msg) IN
                 IF ~json.ok THEN RespondErr("EncodeError")
                 ELSE RespondOk([out.res EXCEPT !.staged = Staged(json.json), !.msg = msg])

\* the responders a handler returns: an inner responder under up to depth
\* carriers with messages of M, or a redirect with a message of M
RECURSIVE Carriers(_, _)
Carriers(M, depth) ==
    IF depth = 0 THEN {Inner(b) : b \in {PlainBase, FailingBase}}
    ELSE Carriers(M, depth - 1)
         \cup {New(m, r) : m \in M \cup {NoMessage}, r \in Carriers(M, depth - 1)}
Responders(M, depth) ==
    Carriers(M, depth) \cup {with_redirect(m, l) : m \in M, l \in Locations}
\* an inner responder with body and cookie, alone or in a carrier
RichResponders(M) ==
    {Inner(RichBase)} \cup {New(m, Inner(RichBase)) : m \in M \cup {NoMessage}}

(***************************************************************************)
(* State                                                                   *)
(***************************************************************************)
VARIABLES
    cookie_name,  \* Flash.cookie_name / FlashMiddleware.cookie_name
    jar,          \* the client's cookies, by name: [present, value, origin]
    cyc,          \* the request/response cycles, by number
    started,      \* cycles started so far
    clean,        \* history: no two cycles have overlapped and every call returned a response
    reads,        \* history: the outcomes of the extractions of the handler that
                  \* returned last, where they are recorded (SpecReads)
    responder     \* history: the responder the handler returned last, where it
                  \* is recorded (SpecCarrier)

vars == <<cookie_name, jar, cyc, started, clean, reads, responder>>

Cycles == 1..MaxCycles

\* A cycle:
\*   pc      idle -> handling (the wrapped service runs) -> returned (its future
\*           has resolved) -> done (call's future has resolved) -> closed (the
\*           client has the response)
\*   req     the request's cookies (HttpMessage::cookies)
\*   ext     the request extensions' FlashCookie
\*   extr    the outcomes of the handler's extractions, in order (the handler
\*           owns them: they are gone when it has returned)
\*   svc     the wrapped service's result: its response res, or its error
\*   out     the result of call: ok (res is the response) or err
\*   avail   history: the cycle that staged the message stored in ext
\*           (0: a cookie no cycle staged, -1: no cookie stored)
IdleCycle ==
    [pc |-> "idle", req |-> <<>>, ext |-> NoFlashCookie, extr |-> <<>>,
     svc |-> [ok |-> FALSE, err |-> ""], res |-> NoResponse,
     out |-> [ok |-> FALSE, err |-> ""], avail |-> -1]

Absent == [present |-> FALSE, value |-> <<>>, origin |-> -1]
Held(value, origin) == [present |-> TRUE, value |-> value, origin |-> origin]

\* cookie values a client may hold that no cycle of this middleware staged
ForeignValues ==
    { <<"a">>,                                                   \* not JSON
      <<"{", QUOTE, "_", QUOTE, ":", QUOTE, "a", QUOTE, "}">>,   \* {"_":"a"}
      <<"[", QUOTE, "a", QUOTE, "]">> }                          \* ["a"]

\* the client's cookie under another name than the middleware's
OtherCookie == Held(<<"{", QUOTE, "_", QUOTE, ":", QUOTE, "a", QUOTE, "}">>, 0)

\* the client holds a cookie under the other name, and under the middleware's
\* name nothing or one of the values V
InitWith(V) ==
    /\ cookie_name \in NameSet
    /\ jar \in {j \in [NameSet -> {Absent, OtherCookie} \cup {Held(v, 0) : v \in V}] :
                  \A n \in NameSet \ {cookie_name} : j[n] = OtherCookie}
    /\ cyc = [c \in Cycles |-> IdleCycle]
    /\ started = 0
    /\ clean = TRUE
    /\ reads = <<>>
    /\ responder = Inner(FailingBase)

Init == InitWith(ForeignValues)

InFlight == {c \in Cycles : cyc[c].pc \in {"handling", "returned", "done"}}
\* the client keeps at most two requests outstanding: it sends request c once
\* every cycle before the previous one is closed
MaySend(c) == \A d \in Cycles : d + 1 < c => cyc[d].pc = "closed"

(***************************************************************************)
(* The client (environment): the Cookie header of a request and the        *)
(* handling of the Set-Cookie headers of a response.                       *)
(***************************************************************************)
\* the cookies the client sends: those it holds, as name=value pairs
RECURSIVE RequestCookies(_, _)
RequestCookies(j, names) ==
    IF names = <<>> THEN <<>>
    ELSE (IF j[Head(names)].present
          THEN <<MkCookie(Head(names), j[Head(names)].value)>> ELSE <<>>)
         \o RequestCookies(j, Tail(names))

\* the value of a Set-Cookie header ends at the first ";"
RECURSIVE UpToSemicolon(_)
UpToSemicolon(s) ==
    IF s = <<>> \/ Head(s) = ";" THEN <<>> ELSE <<Head(s)>> \o UpToSemicolon(Tail(s))

\* one Set-Cookie header of cycle c's response, applied to the client's cookies
ApplySetCookie(j, h, c) ==
    IF h.name \notin NameSet THEN j
    ELSE IF h.removal THEN [j EXCEPT ![h.name] = Absent]
    ELSE [j EXCEPT ![h.name] = Held(UpToSemicolon(h.value), c)]

RECURSIVE ApplyHeaders(_, _, _)
ApplyHeaders(j, hs, c) ==
    IF hs = <<>> THEN j ELSE ApplyHeaders(ApplySetCookie(j, Head(hs), c), Tail(hs), c)

(***************************************************************************)
(* FlashMiddleware::call                                                   *)
(***************************************************************************)
\* (lib.rs 223-225) the request's flash cookie, stored in its extensions
StoreFlashCookie(req, name) ==
    LET found == FindCookie(req, name) IN
    IF found.found THEN FlashCookie(found.cookie) ELSE NoFlashCookie

\* a faulty variant: a live cookie that is no valid header is left out
AttachLive_Skip(res, name) ==
    IF res.staged.present /\ HeaderValid(MkCookie(name, res.staged.json))
    THEN add_cookie(res, SetPath(MkCookie(name, res.staged.json), "/"))
    ELSE [ok |-> TRUE, res |-> res, err |-> ""]

\* (lib.rs 228-234) the staged payload becomes the live cookie
AttachLive(res, name) ==
    IF res.staged.present
    THEN add_cookie(res, SetPath(MkCookie(name, res.staged.json), "/"))
    ELSE [ok |-> TRUE, res |-> res, err |-> ""]

\* a faulty variant: the original cookie is registered and never removed
RemovalJar_NoRemove(req, name) ==
    LET found == FindCookie(req, name) IN
    IF found.found THEN JarAddOriginal(JarNew, found.cookie) ELSE JarNew

\* a faulty variant: the request's cookie is not registered as an original
RemovalJar_NoOriginal(req, name) ==
    LET found == FindCookie(req, name) IN
    IF found.found THEN JarRemove(JarNew, SetPath(MkCookie(name, <<>>), "/")) ELSE JarNew

\* a faulty variant: the removal is built from the request's cookie, path included
RemovalJar_OriginalPath(req, name) ==
    LET found == FindCookie(req, name) IN
    IF found.found
    THEN JarRemove(JarAddOriginal(JarNew, found.cookie), found.cookie)
    ELSE JarNew

\* (lib.rs 236-240) the jar whose delta removes the request's flash cookie
RemovalJar(req, name) ==
    LET found == FindCookie(req, name) IN
    IF found.found
    THEN JarRemove(JarAddOriginal(JarNew, found.cookie), SetPath(MkCookie(name, <<>>), "/"))
    ELSE JarNew

\* (lib.rs 242-244) every cookie of the delta is added to the response
RECURSIVE AttachAll(_, _)
AttachAll(res, cookies) ==
    IF cookies = <<>> THEN [ok |-> TRUE, res |-> res, err |-> ""]
    ELSE LET r == add_cookie(res, Head(cookies)) IN
         IF r.ok THEN AttachAll(r.res, Tail(cookies)) ELSE r

\* (lib.rs 227-247) the continuation of call on the service's response
OnResponse(res, req, name) ==
    LET live == AttachLive(res, name) IN
    IF ~live.ok THEN live
    ELSE AttachAll(live.res, JarDelta(RemovalJar(req, name)))

\* a faulty variant: the continuation runs on an error too, which becomes a response
CallResult_Always(svc, res, req, name) ==
    LET out == OnResponse(res, req, name) IN
    IF out.ok THEN out ELSE [ok |-> FALSE, res |-> NoResponse, err |-> out.err]

\* (lib.rs 227-247) TryFutureExt::and_then on the service's result: the
\* continuation runs on Ok(res), an Err passes through as it is
CallResult(svc, res, req, name) ==
    IF svc.ok
    THEN LET out == OnResponse(res, req, name) IN
         IF out.ok THEN out ELSE [ok |-> FALSE, res |-> NoResponse, err |-> out.err]
    ELSE [ok |-> FALSE, res |-> NoResponse, err |-> svc.err]

\* a faulty variant: the wrapped service is called before the cookie is stored
CallEntry_NoStore(c) ==
    /\ cyc[c].pc = "idle"
    /\ c = started + 1
    /\ MaySend(c)
    /\ cyc' = [cyc EXCEPT ![c] =
                 [@ EXCEPT !.pc = "handling", !.req = RequestCookies(jar, CookieNames)]]
    /\ started' = c
    /\ clean' = (clean /\ InFlight = {})
    /\ UNCHANGED <<cookie_name, jar, reads, responder>>

\* (lib.rs 220-225) a request of the client enters the middleware, which stores
\* the flash cookie and calls the wrapped service
CallEntry(c) ==
    /\ cyc[c].pc = "idle"
    /\ c = started + 1
    /\ MaySend(c)
    /\ LET req == RequestCookies(jar, CookieNames)
           ext == StoreFlashCookie(req, cookie_name)
       IN cyc' = [cyc EXCEPT ![c] =
                    [@ EXCEPT !.pc = "handling", !.req = req, !.ext = ext,
                              !.avail = IF ext.present THEN jar[cookie_name].origin ELSE -1]]
    /\ started' = c
    /\ clean' = (clean /\ InFlight = {})
    /\ UNCHANGED <<cookie_name, jar, reads, responder>>

\* a faulty variant: the flash cookie is kept in the middleware, where the
\* request that entered last has overwritten it
Extract_Shared(c, T) ==
    /\ cyc[c].pc = "handling"
    /\ cyc' = [cyc EXCEPT ![c].extr = Append(@, from_request(cyc[started].ext, T))]
    /\ UNCHANGED <<cookie_name, jar, started, clean, reads, responder>>

\* a faulty variant: the extractor takes the cookie out of the request's storage
Extract_Take(c, T) ==
    /\ cyc[c].pc = "handling"
    /\ cyc' = [cyc EXCEPT ![c].extr = Append(@, from_request(cyc[c].ext, T)),
                          ![c].ext = NoFlashCookie]
    /\ UNCHANGED <<cookie_name, jar, started, clean, reads, responder>>

\* the handler extracts Message<T>
Extract(c, T) ==
    /\ cyc[c].pc = "handling"
    /\ cyc' = [cyc EXCEPT ![c].extr = Append(@, from_request(cyc[c].ext, T))]
    /\ UNCHANGED <<cookie_name, jar, started, clean, reads, responder>>

\* the handler returns responder r and the service's future resolves
ServiceReturn(c, r) ==
    /\ cyc[c].pc = "handling"
    /\ LET out == respond_to(r) IN
       cyc' = [cyc EXCEPT ![c] =
                 [@ EXCEPT !.pc = "returned", !.extr = <<>>,
                           !.svc = [ok |-> out.ok, err |-> out.err], !.res = out.res]]
    /\ UNCHANGED <<cookie_name, jar, started, clean>>

\* (lib.rs 227-247) and_then: an error of the service passes through, a
\* response gets its flash headers
Continuation(c) ==
    /\ cyc[c].pc = "returned"
    /\ LET out == CallResult(cyc[c].svc, cyc[c].res, cyc[c].req, cookie_name)
       IN /\ cyc' = [cyc EXCEPT ![c] =
                       [@ EXCEPT !.pc = "done", !.out = [ok |-> out.ok, err |-> out.err],
                                 !.res = out.res]]
          /\ clean' = (clean /\ out.ok)
    /\ UNCHANGED <<cookie_name, jar, started, reads, responder>>

\* the client receives the response of cycle c (an error reaches it as a
\* response without flash headers) and applies its Set-Cookie headers in order
ClientReceive(c) ==
    /\ cyc[c].pc = "done"
    /\ jar' = ApplyHeaders(jar, cyc[c].res.headers, c)
    /\ cyc' = [cyc EXCEPT ![c] = [IdleCycle EXCEPT !.pc = "closed", !.avail = cyc[c].avail]]
    /\ UNCHANGED <<cookie_name, started, clean, reads, responder>>

Next ==
    \/ \E c \in Cycles : CallEntry(c)
    \/ \E c \in Cycles, T \in Types : Len(cyc[c].extr) < MaxExtract /\ Extract(c, T)
    \/ \E c \in Cycles, r \in Responders(HandlerMessages, 1) :
          ServiceReturn(c, r) /\ UNCHANGED <<reads, responder>>
    \/ \E c \in Cycles : Continuation(c)
    \/ \E c \in Cycles : ClientReceive(c)

Spec == Init /\ [][Next]_vars

(***************************************************************************)
(* The codec on its own: one cycle, its flash cookie any of the texts of   *)
(* RawValues, its handler staging any message of Messages.                 *)
(***************************************************************************)
\* s without its i-th character, and s with ch as its i-th character
Delete(s, i) == SubSeq(s, 1, i - 1) \o SubSeq(s, i + 1, Len(s))
Replace(s, i, ch) == [s EXCEPT ![i] = ch]
CorruptChars == {QUOTE, BSLASH, "a", "1", "_", "{", "}", "[", "]", ":", ","}
Corruptions(s) ==
    {Delete(s, i) : i \in 1..Len(s)}
    \cup {Replace(s, i, ch) : i \in 1..Len(s), ch \in CorruptChars}

Serializable == Messages \ {Unserializable}
RawValues ==
    ForeignValues
    \cup { <<>>,
           <<"{", QUOTE, "x", QUOTE, ":", "1", "}">>,                          \* {"x":1}
           <<"{", QUOTE, "x", QUOTE, ":", "1", ",", QUOTE, "_", QUOTE, ":", "1", "}">>,
           <<"{", QUOTE, "_", QUOTE, ":", "1", ",", QUOTE, "_", QUOTE, ":", "1", "}">>,
           <<"[", "1", ",", "1", "]">>, <<"[", "]">>, <<"{", "}">>, <<"1">> }
    \cup {encode(m).json : m \in Serializable}
    \cup UNION {Corruptions(encode(m).json) :
                  m \in {[t |-> "String", s |-> <<"a">>, n |-> 0], [t |-> "Int", s |-> <<>>, n |-> 1]}}

InitCodec == InitWith(RawValues)

NextCodec ==
    \/ CallEntry(1)
    \/ \E T \in Types : Len(cyc[1].extr) < MaxExtract /\ Extract(1, T)
    \/ \E r \in Responders(Messages, 1) :
          ServiceReturn(1, r) /\ UNCHANGED <<reads, responder>>
    \/ Continuation(1)
    \/ ClientReceive(1)

SpecCodec == InitCodec /\ [][NextCodec]_vars

(***************************************************************************)
(* The extractor on its own: one cycle, its flash cookie any of the texts  *)
(* of RawValues, its handler extracting up to MaxReads times; the outcomes *)
(* of the extractions are recorded when the handler returns.               *)
(***************************************************************************)
NextReads ==
    \/ CallEntry(1)
    \/ \E T \in Types : Len(cyc[1].extr) < MaxReads /\ Extract(1, T)
    \/ \E r \in Responders(HandlerMessages, 1) :
          ServiceReturn(1, r) /\ reads' = cyc[1].extr /\ UNCHANGED responder
    \/ Continuation(1)
    \/ ClientReceive(1)

SpecReads == InitCodec /\ [][NextReads]_vars

(***************************************************************************)
(* The carrier on its own: one cycle whose handler returns carriers nested *)
(* to depth MaxNest, a redirect, or a response with a body and a cookie of *)
(* its own; the responder it returned is recorded.                         *)
(***************************************************************************)
NextCarrier ==
    \/ CallEntry(1)
    \/ \E r \in Responders(HandlerMessages, MaxNest) \cup RichResponders(HandlerMessages) :
          ServiceReturn(1, r) /\ responder' = r /\ UNCHANGED reads
    \/ Continuation(1)
    \/ ClientReceive(1)

SpecCarrier == Init /\ [][NextCarrier]_vars

(***************************************************************************)
(* Vocabulary of the properties                                            *)
(***************************************************************************)
\* cycle c has ended with a response (call returned Ok)
Successful(c) == cyc[c].pc = "done" /\ cyc[c].out.ok
\* the request of cycle c carries a cookie named cookie_name
Incoming(c) == \E i \in 1..Len(cyc[c].req) : cyc[c].req[i].name = cookie_name
\* the handler of cycle c has staged a message
StagedIn(c) == cyc[c].res.staged.present
\* the Set-Cookie headers for cookie_name on the response of cycle c
FlashHeaders(c) == SelectSeq(cyc[c].res.headers, LAMBDA h : h.name = cookie_name)
IsDeletion(h) == h.removal /\ h.value = <<>>
IsLive(h) == ~h.removal /\ h.value # <<>>
Deletions(c) == SelectSeq(FlashHeaders(c), IsDeletion)
Lives(c) == SelectSeq(FlashHeaders(c), IsLive)
\* the cycles whose extractor had the message staged by cycle o
AvailableIn(o) == {d \in Cycles : cyc[d].avail = o}
\* what the extractor of the client's next request yields for type T, the
\* client's cookies being j
NextExtract(j, T) ==
    from_request(StoreFlashCookie(RequestCookies(j, CookieNames), cookie_name), T)

(***************************************************************************)
(* C1. Refresh overrides deletion: a successful cycle whose request        *)
(* carries the flash cookie and whose handler stages a message returns     *)
(* exactly one Set-Cookie for cookie_name, the one with the new encoded    *)
(* value, and no deletion.                                                 *)
(***************************************************************************)
C1_RefreshOverridesDeletion ==
    \A c \in Cycles :
        (Successful(c) /\ Incoming(c) /\ StagedIn(c)) =>
            /\ Len(FlashHeaders(c)) = 1
            /\ FlashHeaders(c)[1].value = cyc[c].res.staged.json
            /\ ~FlashHeaders(c)[1].removal

(***************************************************************************)
(* C2. One-shot delivery: a successful cycle without incoming flash cookie *)
(* that stages m returns a Set-Cookie for cookie_name whose value is the   *)
(* encoding of m; a later successful cycle whose request presents that     *)
(* cookie and that stages nothing returns a deletion for cookie_name and   *)
(* no Set-Cookie for cookie_name with a non-empty value.                   *)
(***************************************************************************)
C2_OneShotDelivery ==
    \A c \in Cycles :
        /\ (Successful(c) /\ ~Incoming(c) /\ StagedIn(c)) =>
              \E i \in 1..Len(FlashHeaders(c)) :
                  /\ ~FlashHeaders(c)[i].removal
                  /\ FlashHeaders(c)[i].value = encode(cyc[c].res.msg).json
        /\ \A o \in Cycles :
              (/\ Successful(c) /\ ~StagedIn(c)
               /\ cyc[c].avail = o /\ cyc[o].pc = "closed" /\ cyc[o].avail = -1) =>
                  /\ Len(Deletions(c)) >= 1
                  /\ \A i \in 1..Len(FlashHeaders(c)) : FlashHeaders(c)[i].value = <<>>

\* the second cycle of the scenario has ended
C2_Witness ==
    \E c, o \in Cycles :
        /\ Successful(c) /\ ~StagedIn(c) /\ Incoming(c)
        /\ cyc[c].avail = o /\ cyc[o].pc = "closed" /\ cyc[o].avail = -1
        /\ Len(Deletions(c)) = 1

(***************************************************************************)
(* C3. A staged message reaches the next request: after any successful     *)
(* cycle that stages m, whether or not its request presented a flash       *)
(* cookie, a client applying the response's Set-Cookie headers in order    *)
(* holds the flash cookie this cycle staged (from which the extractor of   *)
(* its next request is to yield Message(m)).                               *)
(***************************************************************************)
C3_StagedReachesNext ==
    \A c \in Cycles :
        (Successful(c) /\ StagedIn(c)) =>
            LET j == ApplyHeaders(jar, cyc[c].res.headers, c) IN
            j[cookie_name].present /\ j[cookie_name].origin = c

(***************************************************************************)
(* C4. Delivered no more than once: the message staged by one response is  *)
(* available to the extractor in the cycle of at most one later request.   *)
(* As claimed, over all interleavings and failures:                        *)
(***************************************************************************)
C4_AtMostOnceAlways ==
    \A o \in Cycles : Cardinality(AvailableIn(o)) <= 1

\* C4 as amended: when no two cycles have overlapped and every call has
\* returned a response, the message staged by one response is available in
\* the cycle of at most one later request, and once the client has the
\* response of that cycle it holds the message no more.
C4_AtMostOnceSequential ==
    clean =>
        \A o \in Cycles :
            /\ Cardinality(AvailableIn(o)) <= 1
            /\ \A d \in AvailableIn(o) :
                  cyc[d].pc = "closed" => ~(jar[cookie_name].present /\ jar[cookie_name].origin = o)

\* a message has been delivered and its cycle is over, in a run without
\* overlap or failure
C4_Witness ==
    /\ clean
    /\ \E o \in Cycles : \E d \in AvailableIn(o) : cyc[d].pc = "closed"

(***************************************************************************)
(* C5. Absent-cookie rejection: in a cycle whose request has no cookie     *)
(* named cookie_name nothing is stored, and every extraction of Message<T> *)
(* fails with the bad-request error; none yields a Message.                *)
(***************************************************************************)
C5_AbsentRejected ==
    \A c \in Cycles :
        ~Incoming(c) =>
            /\ ~cyc[c].ext.present
            /\ \A i \in 1..Len(cyc[c].extr) :
                  /\ ~cyc[c].extr[i].ok
                  /\ cyc[c].extr[i].err = BadRequest
                  /\ cyc[c].extr[i].msg = NoMessage

C5_Witness ==
    \E c \in Cycles :
        cyc[c].pc = "handling" /\ ~Incoming(c) /\ cyc[c].req # <<>> /\ Len(cyc[c].extr) >= 1

(***************************************************************************)
(* C6. Malformed-cookie rejection: when the stored flash cookie's value is *)
(* not JSON, has no key "_", or has under "_" a value of another type than *)
(* T, extracting Message<T> fails exactly as when no cookie is present.    *)
(***************************************************************************)
\* the JSON value j has a member "_"
HasEnvelopeKey(j) ==
    j.k = "obj" /\ \E i \in 1..Len(j.items) : j.items[i].key = EnvelopeKey
\* the members "_" of j all hold a value of type T
TypeUnderKey(T, j) ==
    \A i \in 1..Len(j.items) :
        j.items[i].key = EnvelopeKey => j.items[i].val.k = (IF T = "String" THEN "str" ELSE "num")
Malformed(T, text) ==
    LET r == ParseJson(text) IN
    \/ ~r.ok
    \/ ~HasEnvelopeKey(r.val)
    \/ ~TypeUnderKey(T, r.val)

C6_MalformedRejected ==
    \A c \in Cycles :
        \A i \in 1..Len(cyc[c].extr) :
            (cyc[c].ext.present /\ Malformed(cyc[c].extr[i].T, cyc[c].ext.cookie.value)) =>
                cyc[c].extr[i] = from_request(NoFlashCookie, cyc[c].extr[i].T)

(***************************************************************************)
(* C7. No-op: a successful cycle with no incoming cookie named cookie_name *)
(* and nothing staged returns no Set-Cookie header for cookie_name.        *)
(***************************************************************************)
C7_NoOp ==
    \A c \in Cycles :
        (Successful(c) /\ ~Incoming(c) /\ ~StagedIn(c)) => FlashHeaders(c) = <<>>

\* such a cycle has ended, and its request carried another cookie
C7_Witness ==
    \E c \in Cycles :
        Successful(c) /\ ~Incoming(c) /\ ~StagedIn(c) /\ cyc[c].req # <<>>

(***************************************************************************)
(* C8. Round trip: decoding, as the extractor does, the cookie value the   *)
(* carrier staged for message v yields v.                                  *)
(***************************************************************************)
C8_RoundTrip ==
    \A c \in Cycles :
        StagedIn(c) =>
            /\ decode(cyc[c].res.msg.t, cyc[c].res.staged.json) = DecodeOk(cyc[c].res.msg)
            /\ from_request(FlashCookie(MkCookie(cookie_name, cyc[c].res.staged.json)),
                            cyc[c].res.msg.t)
                  = ExtractOk(cyc[c].res.msg.t, cyc[c].res.msg)

\* a String message with a character that JSON escapes has been staged
C8_Witness ==
    \E c \in Cycles :
        StagedIn(c) /\ cyc[c].res.msg.t = "String" /\ QUOTE \in Range(cyc[c].res.msg.s)

(***************************************************************************)
(* C9. Fail-open: when the wrapped service fails, call returns that same   *)
(* error, attaches no flash header, and the client's cookies are after the *)
(* cycle what they were.                                                   *)
(***************************************************************************)
C9_FailOpen ==
    \A c \in Cycles :
        (cyc[c].pc = "done" /\ ~cyc[c].svc.ok) =>
            /\ ~cyc[c].out.ok
            /\ cyc[c].out.err = cyc[c].svc.err
            /\ cyc[c].res.headers = <<>>
            /\ ApplyHeaders(jar, cyc[c].res.headers, c) = jar

\* a service has failed in a cycle whose request presented a flash cookie
\* the client still holds
C9_Witness ==
    \E c \in Cycles :
        /\ cyc[c].pc = "done" /\ ~cyc[c].svc.ok /\ Incoming(c)
        /\ jar[cookie_name].present

(***************************************************************************)
(* C10. Name and path: every Set-Cookie header the middleware attaches,    *)
(* live or deletion, has the name cookie_name and the path "/", whatever   *)
(* the incoming cookie's path; cookie_name is "_flash" or the name given   *)
(* at construction and never changes.                                      *)
(***************************************************************************)
C10_NameAndPath ==
    /\ cookie_name \in NameSet
    /\ \A c \in Cycles :
          \A i \in 1..Len(cyc[c].res.headers) :
              /\ cyc[c].res.headers[i].name = cookie_name
              /\ cyc[c].res.headers[i].path = "/"

\* a deletion has been attached for an incoming cookie that has no path "/"
C10_Witness ==
    \E c \in Cycles :
        /\ Successful(c) /\ Len(Deletions(c)) >= 1
        /\ \E i \in 1..Len(cyc[c].req) :
              cyc[c].req[i].name = cookie_name /\ cyc[c].req[i].path # "/"

(***************************************************************************)
(* C11. Set flash and redirect: a cycle without incoming flash cookie      *)
(* whose handler returns Response::with_redirect(m, loc) answers 303 with  *)
(* Location loc and a live Set-Cookie for cookie_name carrying the         *)
(* encoding of m; the handler of the client's following request, which     *)
(* presents that cookie, extracts exactly m, and when it stages nothing    *)
(* its response carries a deletion for cookie_name.                        *)
(***************************************************************************)
\* the response of cycle c is the redirect of with_redirect
Redirected(c) == Successful(c) /\ cyc[c].res.status = 303
\* the request the client sends once it has the response of cycle c
FollowingRequest(c) == RequestCookies(ApplyHeaders(jar, cyc[c].res.headers, c), CookieNames)
\* the response to that request of a handler that stages nothing
FollowingResponse(c) ==
    CallResult([ok |-> TRUE, err |-> ""], HttpResponse(200, None), FollowingRequest(c), cookie_name)

C11_SetFlashAndRedirect ==
    \A c \in Cycles :
        (Redirected(c) /\ ~Incoming(c)) =>
            /\ cyc[c].res.location \in Locations
            /\ StagedIn(c)
            /\ \E i \in 1..Len(FlashHeaders(c)) :
                  IsLive(FlashHeaders(c)[i])
                  /\ FlashHeaders(c)[i].value = encode(cyc[c].res.msg).json
            /\ from_request(StoreFlashCookie(FollowingRequest(c), cookie_name), cyc[c].res.msg.t)
                  = ExtractOk(cyc[c].res.msg.t, cyc[c].res.msg)
            /\ FollowingResponse(c).ok
            /\ \E i \in 1..Len(FollowingResponse(c).res.headers) :
                  IsDeletion(FollowingResponse(c).res.headers[i])
                  /\ FollowingResponse(c).res.headers[i].name = cookie_name

(***************************************************************************)
(* C12. Expiry does not depend on the handler: a successful cycle whose    *)
(* request carries a cookie named cookie_name and whose handler stages     *)
(* nothing returns exactly one Set-Cookie for cookie_name, a deletion      *)
(* (empty value, path "/", expired), whatever the handler extracted and    *)
(* whether or not the value decodes; the client holds the cookie no more.  *)
(***************************************************************************)
C12_ExpiryWhateverTheHandler ==
    \A c \in Cycles :
        (Successful(c) /\ Incoming(c) /\ ~StagedIn(c)) =>
            /\ Len(FlashHeaders(c)) = 1
            /\ IsDeletion(FlashHeaders(c)[1])
            /\ FlashHeaders(c)[1].path = "/"
            /\ ~ApplyHeaders(jar, cyc[c].res.headers, c)[cookie_name].present

\* such a cycle has ended whose cookie decodes as no type and whose handler
\* has tried to extract it
C12_Witness ==
    /\ Successful(1) /\ Incoming(1) /\ ~StagedIn(1)
    /\ \A T \in Types : ~decode(T, cyc[1].ext.cookie.value).ok
    /\ reads # <<>>
    /\ \A i \in 1..Len(reads) : ~reads[i].ok
    /\ Len(Deletions(1)) = 1

(***************************************************************************)
(* C13. Ordering inside one cycle: while the wrapped handler runs the      *)
(* request's flash cookie is already in the request's storage and the      *)
(* response has no flash header; between the handler's start and its       *)
(* completion nothing of the cycle changes but what the handler itself     *)
(* extracts; flash headers are attached only in the step that follows the  *)
(* handler's completion.                                                   *)
(***************************************************************************)
\* what the middleware holds of cycle c
MiddlewarePart(c) == <<cyc[c].req, cyc[c].ext, cyc[c].svc, cyc[c].res, cyc[c].out>>

C13_Ordering ==
    /\ [](\A c \in Cycles :
            cyc[c].pc = "handling" =>
                /\ cyc[c].ext = StoreFlashCookie(cyc[c].req, cookie_name)
                /\ cyc[c].ext.present = Incoming(c)
                /\ cyc[c].res.headers = <<>>)
    /\ [][\A c \in Cycles :
            /\ (cyc[c].pc = "handling" /\ cyc'[c].pc = "handling") =>
                  MiddlewarePart(c)' = MiddlewarePart(c)
            /\ (cyc[c].pc = "handling" /\ cyc'[c].pc # "handling") =>
                  cyc'[c].pc = "returned" /\ cyc'[c].res.headers = <<>>
            /\ (Len(cyc'[c].res.headers) > Len(cyc[c].res.headers)) =>
                  cyc[c].pc = "returned" /\ cyc'[c].pc = "done"]_vars

\* a handler is running on a stored flash cookie it has extracted from, while
\* another cycle has its flash headers
C13_Witness ==
    \E c, d \in Cycles :
        /\ cyc[c].pc = "handling" /\ Incoming(c) /\ cyc[c].ext.present /\ cyc[c].extr # <<>>
        /\ Successful(d) /\ FlashHeaders(d) # <<>>

(***************************************************************************)
(* C14. Isolation of concurrent cycles: whatever the interleaving of the   *)
(* cycles in flight, every extraction of a cycle is what the extractor     *)
(* yields on that cycle's own request cookie, the flash headers of its     *)
(* response are the live cookie of its own staged payload followed by the  *)
(* deletion of its own request cookie, a step of one cycle leaves every    *)
(* other cycle as it was, and cookie_name never changes.                   *)
(***************************************************************************)
\* the flash cookie of the request of cycle c
OwnCookie(c) == FindCookie(cyc[c].req, cookie_name)
\* the flash headers that belong to a staged payload and a request cookie
OwnHeaders(staged, found) ==
    (IF staged.present
     THEN <<[name |-> cookie_name, value |-> staged.json, path |-> "/", removal |-> FALSE]>>
     ELSE <<>>)
    \o (IF found
        THEN <<[name |-> cookie_name, value |-> <<>>, path |-> "/", removal |-> TRUE]>>
        ELSE <<>>)

C14_Isolation ==
    /\ [](\A c \in Cycles :
            /\ \A i \in 1..Len(cyc[c].extr) :
                  LET T == cyc[c].extr[i].T
                      d == decode(T, OwnCookie(c).cookie.value)
                  IN cyc[c].extr[i] =
                         (IF OwnCookie(c).found /\ d.ok THEN ExtractOk(T, d.msg)
                          ELSE ExtractErr(T))
            /\ Successful(c) =>
                  cyc[c].res.headers = OwnHeaders(cyc[c].res.staged, OwnCookie(c).found))
    /\ [][/\ cookie_name' = cookie_name
          /\ Cardinality({c \in Cycles : cyc'[c] # cyc[c]}) <= 1]_vars

\* two handlers run at once on different flash cookies and both have extracted
C14_Witness ==
    \E c, d \in Cycles :
        /\ c # d
        /\ cyc[c].pc = "handling" /\ cyc[d].pc = "handling"
        /\ cyc[c].ext # cyc[d].ext
        /\ cyc[c].extr # <<>> /\ cyc[d].extr # <<>>

(***************************************************************************)
(* C15. At most one staged message per response: when the handler's        *)
(* responder, carriers wrapping carriers included, has produced its        *)
(* response, the response's storage holds no payload when no carrier had a *)
(* message and otherwise the one payload of the outermost carrier with a   *)
(* message, which is staged last and replaces the others; the middleware   *)
(* attaches at most one live Set-Cookie for cookie_name, carrying it.      *)
(***************************************************************************)
\* the messages of the carriers of responder r that have one, outermost first
Present(r) == SelectSeq(r.msgs, LAMBDA m : m # NoMessage)

C15_AtMostOneStaged ==
    /\ ((cyc[1].pc = "returned" /\ cyc[1].svc.ok) \/ Successful(1)) =>
          IF Present(responder) = <<>>
          THEN cyc[1].res.staged = NoStaged
          ELSE /\ cyc[1].res.staged = Staged(encode(Head(Present(responder))).json)
               /\ cyc[1].res.msg = Head(Present(responder))
    /\ Successful(1) =>
          /\ Len(Lives(1)) <= 1
          /\ Len(Lives(1)) = (IF Present(responder) = <<>> THEN 0 ELSE 1)
          /\ \A i \in 1..Len(Lives(1)) : Lives(1)[i].value = cyc[1].res.staged.json

\* a carrier with a message around a carrier with another message has
\* produced its response, and the middleware has attached the live cookie
C15_Witness ==
    /\ Successful(1)
    /\ Len(Present(responder)) = 2
    /\ Present(responder)[1] # Present(responder)[2]
    /\ Len(Lives(1)) = 1

(***************************************************************************)
(* C16. Carrier production: the response of Response::new(message, inner)  *)
(* has a payload staged by this carrier exactly when the production of     *)
(* inner succeeded and message is present (and encodes); when the          *)
(* production of inner or the encoding fails, that failure is returned and *)
(* nothing is staged; when message is absent the response of inner is      *)
(* returned as it is.                                                      *)
(***************************************************************************)
\* the handler has returned a carrier: its message and the responder in it
Carried == responder.msgs # <<>> /\ cyc[1].pc = "returned"
CarriedMessage == Head(responder.msgs)
CarriedInner == [responder EXCEPT !.msgs = Tail(@)]
\* the result of the carrier's production
Produced == [ok |-> cyc[1].svc.ok, res |-> cyc[1].res, err |-> cyc[1].svc.err]

C16_CarrierProduction ==
    Carried =>
        LET inner == respond_to(CarriedInner)
            json == encode(CarriedMessage)
        IN /\ ~inner.ok => Produced = RespondErr(inner.err)
           /\ (inner.ok /\ CarriedMessage = NoMessage) => Produced = inner
           /\ (inner.ok /\ CarriedMessage # NoMessage /\ ~json.ok) =>
                 Produced = RespondErr("EncodeError")
           /\ (inner.ok /\ CarriedMessage # NoMessage /\ json.ok) =>
                 /\ Produced.ok
                 /\ Produced.res.staged = Staged(json.json)
                 /\ Produced.res.msg = CarriedMessage
                 /\ Produced.res.status = inner.res.status
                 /\ Produced.res.location = inner.res.location
                 /\ Produced.res.body = inner.res.body
                 /\ Produced.res.headers = inner.res.headers
           /\ ~Produced.ok => Produced.res = NoResponse

\* a carrier whose message does not encode, around a carrier that has staged
\* its message, has returned the failure
C16_Witness ==
    /\ Carried
    /\ CarriedMessage # NoMessage /\ ~encode(CarriedMessage).ok
    /\ respond_to(CarriedInner).ok /\ respond_to(CarriedInner).res.staged.present
    /\ ~Produced.ok

(***************************************************************************)
(* C17. Frame of the middleware: the response of a successful cycle is the *)
(* handler's response with Set-Cookie headers for cookie_name appended;    *)
(* its status, Location, body, storage and the Set-Cookie headers the      *)
(* handler set are as the handler left them; a request cookie with another *)
(* name is neither stored as the flash cookie nor deleted at the client.   *)
(***************************************************************************)
\* the response the handler's responder produced
HandlerResponse == respond_to(responder).res

C17_Frame ==
    /\ Successful(1) =>
          LET n == Len(HandlerResponse.headers) IN
          /\ cyc[1].res.status = HandlerResponse.status
          /\ cyc[1].res.location = HandlerResponse.location
          /\ cyc[1].res.body = HandlerResponse.body
          /\ cyc[1].res.staged = HandlerResponse.staged
          /\ Len(cyc[1].res.headers) >= n
          /\ SubSeq(cyc[1].res.headers, 1, n) = HandlerResponse.headers
          /\ \A i \in (n + 1)..Len(cyc[1].res.headers) :
                cyc[1].res.headers[i].name = cookie_name
          /\ \A other \in NameSet \ {cookie_name} :
                ApplyHeaders(jar, cyc[1].res.headers, 1)[other] = jar[other]
    /\ cyc[1].ext.present => cyc[1].ext.cookie.name = cookie_name

\* a response with a body and a cookie of its own has got the live cookie and
\* the deletion, in a cycle whose request carried a cookie of another name too
C17_Witness ==
    /\ Successful(1)
    /\ responder.base = RichBase
    /\ Incoming(1) /\ StagedIn(1)
    /\ Len(cyc[1].req) = 2
    /\ Len(cyc[1].res.headers) = 3

(***************************************************************************)
(* C18. Extraction is read-only: from the handler's start to the end of    *)
(* the cycle the request's storage holds the request's flash cookie,       *)
(* however often the handler has extracted; the extractions of one type in *)
(* one cycle all have the same outcome; and the flash headers of the       *)
(* response (refresh, expire, untouched) are those of the staged payload   *)
(* and the request cookie, whatever the number of extractions.             *)
(***************************************************************************)
\* the outcomes of the sequence of extractions x agree per type
SameOutcomes(x) ==
    \A i, j \in 1..Len(x) : x[i].T = x[j].T => x[i] = x[j]

C18_ReadOnly ==
    /\ cyc[1].pc \in {"handling", "returned", "done"} =>
          cyc[1].ext = StoreFlashCookie(cyc[1].req, cookie_name)
    /\ SameOutcomes(cyc[1].extr)
    /\ SameOutcomes(reads)
    /\ Successful(1) =>
          FlashHeaders(1) = OwnHeaders(cyc[1].res.staged, OwnCookie(1).found)

\* the handler has extracted the message twice and staged nothing, and the
\* deletion has been attached
C18_Witness ==
    /\ Successful(1) /\ ~StagedIn(1)
    /\ Len(reads) = 2
    /\ reads[1].ok /\ reads[2] = reads[1]
    /\ Len(Deletions(1)) = 1

(***************************************************************************)
(* C19. Header construction failure is fatal: when one of the flash        *)
(* headers that belong to the handler's response (the live cookie of the   *)
(* staged payload, the deletion of the request's cookie) is no valid       *)
(* header, the cycle ends with the header error and without a response;    *)
(* a response that is returned carries all of its flash headers.           *)
(***************************************************************************)
\* the flash headers that belong to the handler's response in cycle 1
Wanted == OwnHeaders(HandlerResponse.staged, OwnCookie(1).found)
AttachFails == \E i \in 1..Len(Wanted) : ~HeaderValid(Wanted[i])

C19_HeaderFailureFatal ==
    (cyc[1].pc = "done" /\ cyc[1].svc.ok) =>
        /\ AttachFails =>
              /\ ~cyc[1].out.ok
              /\ cyc[1].out.err = "HeaderError"
              /\ cyc[1].res = NoResponse
              /\ ApplyHeaders(jar, cyc[1].res.headers, 1) = jar
        /\ cyc[1].out.ok => (~AttachFails /\ FlashHeaders(1) = Wanted)

\* the live cookie could not be made a header in a cycle whose request
\* carried a flash cookie, for which a deletion would have followed
C19_Witness ==
    /\ cyc[1].pc = "done" /\ cyc[1].svc.ok
    /\ AttachFails /\ Len(Wanted) = 2
    /\ ~cyc[1].out.ok

====
